---- MODULE Spec2Model ----
(***************************************************************************)
(* Video frame search service (backend.py) over a GridFS blob store.       *)
(*                                                                         *)
(* Strings are sequences of one-character strings, so that lower(),        *)
(* strip(), zfill() and the `in` substring test are computed and not       *)
(* assumed.  Scores and confidence floors are in tenths (9 is 0.9).        *)
(* JSON values are tagged records: t is "str", "num" or "null".            *)
(***************************************************************************)
EXTENDS Integers, Sequences, FiniteSets, TLC

VARIABLES store, op, args, ret, reqs

vars == <<store, op, args, ret, reqs>>

(***************************************************************************)
(* Bounds of the model.                                                    *)
(***************************************************************************)
MaxStore == 3

(***************************************************************************)
(* Python string operations.                                               *)
(***************************************************************************)
LowerChar(c) ==
    CASE c = "C" -> "c"
      [] c = "A" -> "a"
      [] c = "R" -> "r"
      [] c = "B" -> "b"
      [] c = "L" -> "l"
      [] OTHER -> c

Lower(s) == [i \in 1..Len(s) |-> LowerChar(s[i])]

\* Python `a in b` on strings: a occurs in b as a contiguous run
Contains(a, b) ==
    \E k \in 0..(Len(b) - Len(a)) : SubSeq(b, k + 1, k + Len(a)) = a

RECURSIVE LStrip(_)
LStrip(s) == IF s # <<>> /\ Head(s) = " " THEN LStrip(Tail(s)) ELSE s

RECURSIVE RStrip(_)
RStrip(s) ==
    IF s # <<>> /\ s[Len(s)] = " " THEN RStrip(SubSeq(s, 1, Len(s) - 1)) ELSE s

Strip(s) == RStrip(LStrip(s))

(***************************************************************************)
(* JSON values and float().                                                *)
(***************************************************************************)
JStr(s) == [t |-> "str", s |-> s, n |-> 0]
JNum(n) == [t |-> "num", s |-> <<>>, n |-> n]
JNull == [t |-> "null", s |-> <<>>, n |-> 0]
PyInt(n) == [t |-> "int", s |-> <<>>, n |-> n]

Digits == <<"0", "1", "2", "3", "4", "5", "6", "7", "8", "9">>

IsDigit(c) == \E d \in 1..10 : Digits[d] = c

DigitVal(c) == (CHOOSE d \in 1..10 : Digits[d] = c) - 1

\* float(v): a number is itself; a string must read as d or d.d; None raises
FloatOk(v) ==
    \/ v.t = "num"
    \/ /\ v.t = "str"
       /\ \/ Len(v.s) = 1 /\ IsDigit(v.s[1])
          \/ Len(v.s) = 3 /\ IsDigit(v.s[1]) /\ v.s[2] = "." /\ IsDigit(v.s[3])

Float(v) ==
    IF v.t = "num" THEN v.n
    ELSE IF Len(v.s) = 1 THEN 10 * DigitVal(v.s[1])
    ELSE 10 * DigitVal(v.s[1]) + DigitVal(v.s[3])

JList(v) == [t |-> "list", v |-> v]
JAbsent == [t |-> "absent", v |-> <<>>]

\* json.loads(grid_out.read().decode()): a dict, or the text does not parse
Unparseable == [ok |-> FALSE, detection_class_entities |-> JAbsent,
                detection_class_names |-> JAbsent,
                detection_scores |-> JAbsent, detection_boxes |-> JAbsent]

Doc(ents, cls, scores, boxes) ==
    [ok |-> TRUE, detection_class_entities |-> ents,
     detection_class_names |-> cls,
     detection_scores |-> scores, detection_boxes |-> boxes]

\* data.get(key, []): the default only when the key is absent
DataGet(field) == IF field.t = "absent" THEN JList(<<>>) ELSE field

(***************************************************************************)
(* Blob store adapter (GridFS): find, find_one, get.  A file's _id is its  *)
(* position in the store, which is also the enumeration order.             *)
(***************************************************************************)
\* {"$regex": pattern, "$options": "i"}: unanchored, case-insensitive; the
\* pattern characters are literals except ".", which matches any character
RegexSearchI(pattern, s) ==
    \E k \in 0..(Len(s) - Len(pattern)) :
        \A j \in 1..Len(pattern) :
            pattern[j] = "." \/ LowerChar(pattern[j]) = LowerChar(s[k + j])

\* A query is a type and a condition on each of the tags video_id and
\* frame_number: no key ("any"), a value ("eq"), or a regex ("regex")
AnyTag == [k |-> "any", v |-> JNull]
TagIs(v) == [k |-> "eq", v |-> v]
TagLike(pattern) == [k |-> "regex", v |-> JStr(pattern)]

TagHolds(cond, tag) ==
    CASE cond.k = "any" -> TRUE
      [] cond.k = "eq" -> tag = cond.v
      [] OTHER -> tag.t = "str" /\ RegexSearchI(cond.v.s, tag.s)

Matches(query, f) ==
    /\ f.type = query.type
    /\ TagHolds(query.video_id, f.video_id)
    /\ TagHolds(query.frame_number, f.frame_number)

\* the ids of the matching files among files[lo..hi], in the order of the
\* store: those of the first half, then those of the second
RECURSIVE FsFindRange(_, _, _, _)
FsFindRange(files, query, lo, hi) ==
    IF lo > hi THEN <<>>
    ELSE IF lo = hi
    THEN IF Matches(query, files[lo]) THEN <<lo>> ELSE <<>>
    ELSE LET mid == (lo + hi) \div 2
         IN  FsFindRange(files, query, lo, mid)
                \o FsFindRange(files, query, mid + 1, hi)

\* find: the ids of the matching files, in the order of the store
FsFind(files, query, from) == FsFindRange(files, query, from, Len(files))

\* find_one: the first match, or 0 for None
FsFindOne(files, query) ==
    LET ids == FsFind(files, query, 1) IN IF ids = <<>> THEN 0 ELSE ids[1]

FsGet(files, id) == files[id]

(***************************************************************************)
(* search_frames                                                           *)
(***************************************************************************)
\* the query without its "metadata.video_id" key
SearchQueryUnfiltered(video_filter) ==
    [type |-> "objects", video_id |-> AnyTag, frame_number |-> AnyTag]

SearchQuery(video_filter) ==
    [type |-> "objects",
     video_id |-> IF video_filter # <<>> THEN TagLike(video_filter)
                  ELSE AnyTag,
     frame_number |-> AnyTag]

\* the comparison turned round
ScoreAdmittedInverted(score, confidence_threshold) ==
    score <= confidence_threshold

ScoreAdmitted(score, confidence_threshold) == score >= confidence_threshold

\* a search that matches labels with their case
TermMatchesCaseSensitive(search_term, label) == Contains(search_term, label)

TermMatches(search_term, label) == Contains(Lower(search_term), Lower(label))

CapReached(results, max_results) == Len(results) >= max_results

Min2(a, b) == IF a <= b THEN a ELSE b

\* boxes[i] without the `if i < len(boxes)` guard: an IndexError
BboxRaisesUnguarded(boxes, i) ==
    \/ boxes.t # "list"
    \/ i > Len(boxes.v)
    \/ boxes.v[i].t # "list"
    \/ \E k \in 1..Len(boxes.v[i].v) : ~FloatOk(boxes.v[i].v[k])

\* [float(x) for x in boxes[i]] if i < len(boxes) else []
BboxRaises(boxes, i) ==
    \/ boxes.t # "list"
    \/ /\ i <= Len(boxes.v)
       /\ \/ boxes.v[i].t # "list"
          \/ \E k \in 1..Len(boxes.v[i].v) : ~FloatOk(boxes.v[i].v[k])

Bbox(boxes, i) ==
    IF i <= Len(boxes.v)
    THEN [k \in 1..Len(boxes.v[i].v) |-> Float(boxes.v[i].v[k])]
    ELSE <<>>

\* the two tags taken for each other
MakeResultTagsSwapped(file_doc, entity, class_name, score, bbox) ==
    [video_id |-> file_doc.frame_number,
     frame_number |-> file_doc.video_id,
     entity |-> entity,
     class_name |-> class_name,
     confidence |-> score,
     bbox |-> bbox,
     filename |-> file_doc.filename]

MakeResult(file_doc, entity, class_name, score, bbox) ==
    [video_id |-> file_doc.video_id,
     frame_number |-> file_doc.frame_number,
     entity |-> entity,
     class_name |-> class_name,
     confidence |-> score,
     bbox |-> bbox,
     filename |-> file_doc.filename]

\* The body of `for i, (entity, class_name, score) in enumerate(zip(...))`,
\* from detection i on.  raised: an exception left the loop.
RECURSIVE MatchLoop(_, _, _, _)
MatchLoop(c, scores, i, results) ==
    LET ents == c.entities.v
        cls == c.class_names.v
        n == Min2(Len(ents), Min2(Len(cls), Len(scores)))
        emitted == Append(results,
                     MakeResult(c.file_doc, ents[i], cls[i], scores[i],
                                Bbox(c.boxes, i)))
    IN  IF i > n THEN [results |-> results, raised |-> FALSE]
        ELSE IF ~ScoreAdmitted(scores[i], c.confidence_threshold)
             THEN MatchLoop(c, scores, i + 1, results)
        ELSE IF ents[i].t # "str" THEN [results |-> results, raised |-> TRUE]
        ELSE IF ~TermMatches(c.search_term, ents[i].s) /\ cls[i].t # "str"
             THEN [results |-> results, raised |-> TRUE]
        ELSE IF ~TermMatches(c.search_term, ents[i].s)
                /\ ~TermMatches(c.search_term, cls[i].s)
             THEN MatchLoop(c, scores, i + 1, results)
        ELSE IF BboxRaises(c.boxes, i)
             THEN [results |-> results, raised |-> TRUE]
        ELSE IF CapReached(emitted, c.max_results)
             THEN [results |-> emitted, raised |-> FALSE]
        ELSE MatchLoop(c, scores, i + 1, emitted)

\* json.loads(...), the four data.get(...) and the float(s) of every score:
\* what can raise before the first detection is looked at
DecodeRaises(data) ==
    \/ ~data.ok
    \/ DataGet(data.detection_scores).t # "list"
    \/ \E k \in 1..Len(DataGet(data.detection_scores).v) :
          ~FloatOk(DataGet(data.detection_scores).v[k])
    \/ DataGet(data.detection_class_entities).t # "list"
    \/ DataGet(data.detection_class_names).t # "list"

\* The try block for one file_doc, up to processed_count += 1
ProcessFile(file_doc, results, search_term, confidence_threshold, max_results) ==
    LET data == file_doc.json
        rawscores == DataGet(data.detection_scores).v
    IN  IF DecodeRaises(data) THEN [results |-> results, raised |-> TRUE]
        ELSE MatchLoop([file_doc |-> file_doc,
                        entities |-> DataGet(data.detection_class_entities),
                        class_names |-> DataGet(data.detection_class_names),
                        boxes |-> DataGet(data.detection_boxes),
                        search_term |-> search_term,
                        confidence_threshold |-> confidence_threshold,
                        max_results |-> max_results],
                       [k \in 1..Len(rawscores) |-> Float(rawscores[k])],
                       1, results)

\* the scan with `break` for `continue` in the except clause
RECURSIVE ScanLoopAbortOnError(_, _, _, _, _, _)
ScanLoopAbortOnError(files, ids, k, results, processed_count, q) ==
    IF k > Len(ids)
    THEN [results |-> results, processed_count |-> processed_count]
    ELSE LET r == ProcessFile(FsGet(files, ids[k]), results, q.search_term,
                              q.confidence_threshold, q.max_results)
         IN  IF r.raised
             THEN [results |-> r.results, processed_count |-> processed_count]
             ELSE IF CapReached(r.results, q.max_results)
             THEN [results |-> r.results,
                   processed_count |-> processed_count + 1]
             ELSE ScanLoopAbortOnError(files, ids, k + 1, r.results,
                                       processed_count + 1, q)

\* `for file_doc in self.fs.find(query)`, from the k-th file found on;
\* q holds search_term, confidence_threshold and max_results
RECURSIVE ScanLoop(_, _, _, _, _, _)
ScanLoop(files, ids, k, results, processed_count, q) ==
    IF k > Len(ids)
    THEN [results |-> results, processed_count |-> processed_count]
    ELSE LET r == ProcessFile(FsGet(files, ids[k]), results, q.search_term,
                              q.confidence_threshold, q.max_results)
         IN  IF r.raised
             THEN ScanLoop(files, ids, k + 1, r.results, processed_count, q)
             ELSE IF CapReached(r.results, q.max_results)
             THEN [results |-> r.results,
                   processed_count |-> processed_count + 1]
             ELSE ScanLoop(files, ids, k + 1, r.results,
                           processed_count + 1, q)

\* a sort that puts a result before the equal ones already placed
SortsBeforeStrict(a, b) == a.confidence > b.confidence

\* results.sort(key=confidence, reverse=True): a stable sort
SortsBefore(a, b) == a.confidence >= b.confidence

InsertSorted(sorted, r) ==
    LET keep == {k \in 1..Len(sorted) : SortsBefore(sorted[k], r)}
        pos == IF keep = {} THEN 0
               ELSE CHOOSE k \in keep : \A m \in keep : m <= k
    IN  SubSeq(sorted, 1, pos) \o <<r>> \o SubSeq(sorted, pos + 1, Len(sorted))

RECURSIVE SortByConfidence(_)
SortByConfidence(results) ==
    IF results = <<>> THEN <<>>
    ELSE InsertSorted(SortByConfidence(SubSeq(results, 1, Len(results) - 1)),
                      results[Len(results)])

\* the scan of search_frames, before the sort
Scan(files, search_term, confidence_threshold, max_results, video_filter) ==
    ScanLoop(files, FsFind(files, SearchQuery(video_filter), 1), 1, <<>>, 0,
             [search_term |-> search_term,
              confidence_threshold |-> confidence_threshold,
              max_results |-> max_results])

search_frames(files, search_term, confidence_threshold, max_results, video_filter) ==
    LET scan == Scan(files, search_term, confidence_threshold, max_results,
                     video_filter)
        results == SortByConfidence(scan.results)
    IN  [total_matches |-> Len(results),
         results |-> results,
         processed_files |-> scan.processed_count]

(***************************************************************************)
(* search_frames while the store is unavailable.  An outage is either      *)
(* [at |-> "get", n |-> id]: self.fs.get(id) raises, or                    *)
(* [at |-> "find", n |-> k]: the cursor of self.fs.find(query) raises      *)
(* when the entry after the k-th is asked for.                             *)
(***************************************************************************)
\* self.fs.get(id) raises inside the try block, where json.loads raises
\* for a text that does not parse: the same except clause, before anything
\* of the record is read
GetUnavailable(files, id) == [files EXCEPT ![id].json = Unparseable]

\* the loop left by one of its two `break`s: after an append, or after a
\* record processed to its end
LoopBroke(scan, max_results) ==
    /\ CapReached(scan.results, max_results)
    /\ Len(scan.results) > 0 \/ scan.processed_count > 0

\* the return statement of search_frames after a scan
SearchReturn(scan) ==
    LET results == SortByConfidence(scan.results)
    IN  [total_matches |-> Len(results),
         results |-> results,
         processed_files |-> scan.processed_count]

\* raised: the exception leaves search_frames (the for statement is
\* outside the try block); value: what search_frames returns otherwise
search_frames_outage(files, q, outage) ==
    LET ids == FsFind(files, SearchQuery(q.video_filter), 1)
        scan == ScanLoop(files, SubSeq(ids, 1, outage.n), 1, <<>>, 0, q)
    IN  IF outage.at = "get"
        THEN [raised |-> FALSE,
              value |-> search_frames(GetUnavailable(files, outage.n),
                                      q.search_term, q.confidence_threshold,
                                      q.max_results, q.video_filter)]
        ELSE IF LoopBroke(scan, q.max_results)
        THEN [raised |-> FALSE, value |-> SearchReturn(scan)]
        ELSE [raised |-> TRUE, value |-> SearchReturn(scan)]

(***************************************************************************)
(* get_frame_image_b64                                                     *)
(***************************************************************************)
\* str(n) for an int
RECURSIVE NatToStr(_)
NatToStr(n) ==
    IF n < 10 THEN <<Digits[n + 1]>>
    ELSE NatToStr(n \div 10) \o <<Digits[(n % 10) + 1]>>

\* str(x) for an int, a str or None
ToStr(x) ==
    CASE x.t = "int" -> IF x.n < 0 THEN <<"-">> \o NatToStr(-x.n)
                        ELSE NatToStr(x.n)
      [] x.t = "str" -> x.s
      [] OTHER -> <<"N", "o", "n", "e">>

Zeros(k) == [i \in 1..k |-> "0"]

\* no padding at all
ZfillNoPad(s, width) == s

\* str.zfill(width): zeros go after a leading sign
Zfill(s, width) ==
    IF Len(s) >= width THEN s
    ELSE IF s # <<>> /\ s[1] \in {"+", "-"}
    THEN <<s[1]>> \o Zeros(width - Len(s)) \o Tail(s)
    ELSE Zeros(width - Len(s)) \o s

FrameStr(frame_number) == Zfill(ToStr(frame_number), 4)

B64Alphabet ==
    <<"A", "B", "C", "D", "E", "F", "G", "H", "I", "J", "K", "L", "M",
      "N", "O", "P", "Q", "R", "S", "T", "U", "V", "W", "X", "Y", "Z",
      "a", "b", "c", "d", "e", "f", "g", "h", "i", "j", "k", "l", "m",
      "n", "o", "p", "q", "r", "s", "t", "u", "v", "w", "x", "y", "z",
      "0", "1", "2", "3", "4", "5", "6", "7", "8", "9", "+", "/">>

\* base64.b64encode(bytes).decode()
RECURSIVE B64Encode(_)
B64Encode(bytes) ==
    LET b1 == bytes[1]
        b2 == bytes[2]
        b3 == bytes[3]
        A(k) == B64Alphabet[k + 1]
    IN  CASE Len(bytes) = 0 -> <<>>
          [] Len(bytes) = 1 ->
                <<A(b1 \div 4), A((b1 % 4) * 16), "=", "=">>
          [] Len(bytes) = 2 ->
                <<A(b1 \div 4), A((b1 % 4) * 16 + b2 \div 16),
                  A((b2 % 16) * 4), "=">>
          [] OTHER ->
                <<A(b1 \div 4), A((b1 % 4) * 16 + b2 \div 16),
                  A((b2 % 16) * 4 + b3 \div 64), A(b3 % 64)>>
                \o B64Encode(SubSeq(bytes, 4, Len(bytes)))

\* the exact query without its video_id key
ExactQueryAnyVideo(video_id, frame_str) ==
    [type |-> "keyframes", video_id |-> AnyTag,
     frame_number |-> TagIs(JStr(frame_str))]

ExactQuery(video_id, frame_str) ==
    [type |-> "keyframes", video_id |-> TagIs(video_id),
     frame_number |-> TagIs(JStr(frame_str))]

AltQuery(video_id) ==
    [type |-> "keyframes", video_id |-> TagIs(video_id),
     frame_number |-> AnyTag]

\* the filename scan without its `break`: the last file that fits
RECURSIVE AltScanLast(_, _, _, _)
AltScanLast(files, ids, k, frame_str) ==
    IF k > Len(ids) THEN 0
    ELSE LET later == AltScanLast(files, ids, k + 1, frame_str)
         IN  IF later # 0 THEN later
             ELSE IF Contains(frame_str, FsGet(files, ids[k]).filename)
             THEN ids[k]
             ELSE 0

\* for alt_file in self.fs.find(alt_query): the first whose filename
\* contains frame_str, or 0
RECURSIVE AltScan(_, _, _, _)
AltScan(files, ids, k, frame_str) ==
    IF k > Len(ids) THEN 0
    ELSE IF Contains(frame_str, FsGet(files, ids[k]).filename) THEN ids[k]
    ELSE AltScan(files, ids, k + 1, frame_str)

\* image: the returned value (None is JNull); calls: the adapter calls
\* made, in order
get_frame_image_b64(files, video_id, frame_number) ==
    LET frame_str == FrameStr(frame_number)
        first == FsFindOne(files, ExactQuery(video_id, frame_str))
        alt == AltScan(files, FsFind(files, AltQuery(video_id), 1), 1,
                       frame_str)
        file_doc == IF first # 0 THEN first ELSE alt
        lookups == IF first # 0 THEN <<"find_one">> ELSE <<"find_one", "find">>
    IN  IF file_doc = 0
        THEN [image |-> JNull, calls |-> lookups, id |-> 0]
        ELSE [image |-> JStr(B64Encode(FsGet(files, file_doc).data)),
              calls |-> Append(lookups, "get"), id |-> file_doc]

(***************************************************************************)
(* api_search: POST /api/search                                            *)
(***************************************************************************)
\* list[:m]
SliceTo(list, m) ==
    IF m >= 0 THEN SubSeq(list, 1, Min2(m, Len(list)))
    ELSE SubSeq(list, 1, Len(list) + m)

WebResult(files, result) ==
    [video_id |-> result.video_id,
     frame_number |-> result.frame_number,
     confidence |-> result.confidence,
     entity |-> result.entity,
     class_name |-> result.class_name,
     bbox |-> result.bbox,
     image |-> get_frame_image_b64(files, result.video_id,
                                   result.frame_number).image]

api_search(files, data) ==
    LET search_term == Strip(data.query)
        confidence == Float(data.confidence)
        results == search_frames(files, search_term, confidence,
                                 data.max_results, data.video_filter)
        shown == SliceTo(results.results, data.max_results)
    IN  IF ~FloatOk(data.confidence)
        THEN [status |-> 500, error |-> "could not convert string to float"]
        ELSE IF search_term = <<>>
        THEN [status |-> 400, error |-> "Search term is required"]
        ELSE [status |-> 200,
              total_matches |-> results.total_matches,
              results |-> [k \in 1..Len(shown) |-> WebResult(files, shown[k])]]

(***************************************************************************)
(* get_dataset_stats and get_popular_objects: GET /api/stats and           *)
(* GET /api/suggestions.  A Counter is the sequence of its (key, count)    *)
(* items in insertion order.                                               *)
(***************************************************************************)
OverviewSampleLimit == 1000
OverviewMinScore == 5
OverviewTop == 20
SampleVideos == 10
SuggestionSampleLimit == 500
SuggestionMinScore == 6
SuggestionTop == 50

ObjectsQuery ==
    [type |-> "objects", video_id |-> AnyTag, frame_number |-> AnyTag]

KeyframesQuery ==
    [type |-> "keyframes", video_id |-> AnyTag, frame_number |-> AnyTag]

\* count_documents over every file of another type as well
CountDocumentsAnyType(files, query) == Len(files)

\* count_documents(query)
CountDocuments(files, query) ==
    Cardinality({id \in DOMAIN files : Matches(query, files[id])})

\* distinct("metadata.video_id", query) over files ids[lo..hi], added to
\* the values seen before; a file without the tag adds nothing.  The first
\* half is evaluated (Len) before the second half starts from it.
RECURSIVE DistinctLoop(_, _, _, _, _)
DistinctLoop(files, ids, lo, hi, seen) ==
    IF lo > hi THEN seen
    ELSE IF lo = hi
    THEN LET tag == FsGet(files, ids[lo]).video_id
         IN  IF tag.t = "null" \/ \E k \in 1..Len(seen) : seen[k] = tag
             THEN seen
             ELSE Append(seen, tag)
    ELSE LET mid == (lo + hi) \div 2
             first_half == DistinctLoop(files, ids, lo, mid, seen)
         IN  IF Len(first_half) >= 0
             THEN DistinctLoop(files, ids, mid + 1, hi, first_half)
             ELSE first_half

Distinct(files, query) ==
    LET ids == FsFind(files, query, 1)
    IN  DistinctLoop(files, ids, 1, Len(ids), <<>>)

\* find(query).limit(n)
FsFindLimit(files, query, n) == SliceTo(FsFind(files, query, 1), n)

\* object_counter[entity] += 1
CounterAdd(object_counter, entity) ==
    LET at == {k \in 1..Len(object_counter) : object_counter[k].key = entity}
    IN  IF at = {} THEN Append(object_counter, [key |-> entity, count |-> 1])
        ELSE [object_counter EXCEPT ![CHOOSE k \in at : TRUE].count = @ + 1]

\* for entity, score in zip(entities, scores), from the i-th pair on; the
\* counter is evaluated (Len) before the next pair is taken
RECURSIVE CountLoop(_, _, _, _, _)
CountLoop(entities, scores, i, object_counter, min_score) ==
    IF i > Min2(Len(entities), Len(scores)) THEN object_counter
    ELSE IF Float(scores[i]) >= min_score
    THEN LET counted == CounterAdd(object_counter, entities[i])
         IN  IF Len(counted) > 0
             THEN CountLoop(entities, scores, i + 1, counted, min_score)
             ELSE counted
    ELSE CountLoop(entities, scores, i + 1, object_counter, min_score)

\* json.loads(...), the float(s) of every score and zip(entities, scores):
\* what raises before the first pair is counted
SampleDecodeRaises(data) ==
    \/ ~data.ok
    \/ DataGet(data.detection_scores).t # "list"
    \/ \E k \in 1..Len(DataGet(data.detection_scores).v) :
          ~FloatOk(DataGet(data.detection_scores).v[k])
    \/ DataGet(data.detection_class_entities).t # "list"

\* the try block for one file_doc of the sample; `continue` when it raises
CountFile(file_doc, object_counter, min_score) ==
    LET data == file_doc.json
    IN  IF SampleDecodeRaises(data) THEN object_counter
        ELSE CountLoop(DataGet(data.detection_class_entities).v,
                       DataGet(data.detection_scores).v, 1, object_counter,
                       min_score)

\* for file_doc in sample_files, over sample_files[lo..hi]: the first half,
\* then the second with the counter the first half left (evaluated, Len,
\* before the second half starts)
RECURSIVE SampleLoop(_, _, _, _, _, _)
SampleLoop(files, ids, lo, hi, object_counter, min_score) ==
    IF lo > hi THEN object_counter
    ELSE IF lo = hi
    THEN CountFile(FsGet(files, ids[lo]), object_counter, min_score)
    ELSE LET mid == (lo + hi) \div 2
             first_half == SampleLoop(files, ids, lo, mid, object_counter,
                                      min_score)
         IN  IF Len(first_half) >= 0
             THEN SampleLoop(files, ids, mid + 1, hi, first_half, min_score)
             ELSE first_half

\* a ranking that puts an item after the equal ones that follow it
RanksBeforeStrict(a, b) == a.count > b.count

\* item a, which precedes b in the counter, stays before b in
\* sorted(items, key=count, reverse=True): the sort is stable
RanksBefore(a, b) == a.count >= b.count

\* the place of the k-th item of the counter in the sorted list
RankOf(object_counter, k) ==
    1 + Cardinality({j \in 1..Len(object_counter) :
            \/ j < k /\ RanksBefore(object_counter[j], object_counter[k])
            \/ j > k /\ ~RanksBefore(object_counter[k], object_counter[j])})

\* the items of the counter, each at its place; ranks holds <<k, place>>
\* for every item k
Placed(object_counter, ranks) ==
    [p \in 1..Len(object_counter) |->
        object_counter[(CHOOSE r \in ranks : r[2] = p)[1]]]

Ranked(object_counter) ==
    Placed(object_counter,
           {<<k, RankOf(object_counter, k)>> : k \in 1..Len(object_counter)})

\* most_common without its argument
MostCommonAll(object_counter, n) ==
    LET ranked == Ranked(object_counter)
    IN  [k \in 1..Len(ranked) |-> <<ranked[k].key, ranked[k].count>>]

\* object_counter.most_common(n): (key, count) pairs
MostCommon(object_counter, n) ==
    LET ranked == SliceTo(Ranked(object_counter), n)
    IN  [k \in 1..Len(ranked) |-> <<ranked[k].key, ranked[k].count>>]

get_dataset_stats(files) ==
    LET videos == Distinct(files, ObjectsQuery)
        frames == CountDocuments(files, ObjectsQuery)
        keyframes == CountDocuments(files, KeyframesQuery)
        sample_files == FsFindLimit(files, ObjectsQuery, OverviewSampleLimit)
        object_counter == SampleLoop(files, sample_files, 1,
                                     Len(sample_files), <<>>,
                                     OverviewMinScore)
    IN  [total_videos |-> Len(videos),
         total_frames |-> frames,
         total_keyframes |-> keyframes,
         top_objects |-> MostCommon(object_counter, OverviewTop),
         sample_videos |-> SliceTo(videos, SampleVideos)]

get_popular_objects(files) ==
    LET sample_files == FsFindLimit(files, ObjectsQuery,
                                    SuggestionSampleLimit)
        object_counter == SampleLoop(files, sample_files, 1,
                                     Len(sample_files), <<>>,
                                     SuggestionMinScore)
        top == MostCommon(object_counter, SuggestionTop)
    IN  [k \in 1..Len(top) |-> top[k][1]]

(***************************************************************************)
(* Store contents.  Tags follow _create_metadata (push.py): an objects     *)
(* file <video>/<frame>.json is tagged with both; a keyframe file is       *)
(* tagged frame_number only when its name contains "frame".                *)
(***************************************************************************)
car == <<"c", "a", "r">>
Car == <<"C", "a", "r">>
cab == <<"c", "a", "b">>
bus == <<"b", "u", "s">>
L1 == <<"L", "1">>
l2 == <<"l", "2">>
F0001 == <<"0", "0", "0", "1">>
F0002 == <<"0", "0", "0", "2">>
F0003 == <<"0", "0", "0", "3">>
F10001 == <<"1", "0", "0", "0", "1">>
DotJson == <<".", "j", "s", "o", "n">>
DotJpg == <<".", "j", "p", "g">>
FramePrefix == <<"f", "r", "a", "m", "e", "_">>

Box == JList(<<JNum(1), JNum(2), JNum(3), JNum(4)>>)
BadBox == JList(<<JNum(1), JStr(<<"x">>), JNum(3), JNum(4)>>)

ObjectsFile(video_id, frame, json) ==
    [type |-> "objects", video_id |-> JStr(video_id),
     frame_number |-> JStr(frame), filename |-> frame \o DotJson,
     json |-> json, data |-> <<>>]

KeyframeFile(video_id, frame_tag, filename, data) ==
    [type |-> "keyframes", video_id |-> JStr(video_id),
     frame_number |-> frame_tag, filename |-> filename,
     json |-> Unparseable, data |-> data]

\* two detections, the second matching "car" by its class name only and
\* lying beyond the end of boxes
ObjA ==
    ObjectsFile(L1, F0001,
        Doc(JList(<<JStr(Car), JStr(bus)>>), JList(<<JStr(bus), JStr(car)>>),
            JList(<<JNum(9), JNum(5)>>), JList(<<Box>>)))

\* no boxes field; the first score is the numeric string "0.5"
ObjB ==
    ObjectsFile(l2, F0002,
        Doc(JList(<<JStr(car), JStr(cab)>>), JList(<<JStr(bus), JStr(bus)>>),
            JList(<<JStr(<<"0", ".", "5">>), JNum(9)>>), JAbsent))

\* not JSON
ObjGarbage == ObjectsFile(L1, F0003, Unparseable)

\* a score that float() rejects
ObjBadScore ==
    ObjectsFile(l2, F0001,
        Doc(JList(<<JStr(car), JStr(car)>>), JList(<<JStr(car), JStr(car)>>),
            JList(<<JNum(9), JStr(<<"x">>)>>), JList(<<Box, Box>>)))

\* the second detection (score 0.5) has a box float() rejects
ObjBadBox ==
    ObjectsFile(L1, F0002,
        Doc(JList(<<JStr(car), JStr(car), JStr(Car)>>),
            JList(<<JStr(bus), JStr(bus), JNull>>),
            JList(<<JNum(9), JNum(5), JNum(9)>>),
            JList(<<Box, BadBox, Box>>)))

KfA == KeyframeFile(L1, JStr(F0001), FramePrefix \o F0001 \o DotJpg, <<77, 97, 110>>)
KfUntagged == KeyframeFile(L1, JNull, F0001 \o DotJpg, <<255>>)
KfLong == KeyframeFile(L1, JStr(F10001), FramePrefix \o F10001 \o DotJpg, <<77, 97>>)
KfOther == KeyframeFile(l2, JStr(F0001), FramePrefix \o F0001 \o DotJpg, <<>>)

\* more different labels than the suggestion list holds, each detected once
Label(i) == <<"x">> \o NatToStr(i)

ObjWide ==
    ObjectsFile(l2, F0003,
        Doc(JList([i \in 1..(SuggestionTop + 1) |-> JStr(Label(i))]),
            JList([i \in 1..(SuggestionTop + 1) |-> JStr(bus)]),
            JList([i \in 1..(SuggestionTop + 1) |-> JNum(9)]), JAbsent))

\* one detection, admitted by both samplers
ObjPad ==
    ObjectsFile(L1, F0003,
        Doc(JList(<<JStr(bus)>>), JList(<<JStr(bus)>>),
            JList(<<JNum(6)>>), JAbsent))

StatsFiles == {ObjA, ObjB, ObjGarbage, ObjBadScore, ObjBadBox, KfA, ObjWide}

\* stores that reach beyond the sample limits: as many ObjPad as a limit,
\* between at most one file before and at most one after
LongStores ==
    LET ends == {<<>>} \cup {<<f>> : f \in {ObjGarbage, ObjB, ObjWide, KfA}}
    IN  {head \o [i \in 1..n |-> ObjPad] \o tail :
            head \in ends, tail \in ends,
            n \in {SuggestionSampleLimit, OverviewSampleLimit}}

\* detections stored under a keyframes tag
KfDetections ==
    [KeyframeFile(l2, JStr(F0002), FramePrefix \o F0002 \o DotJson, <<>>)
        EXCEPT !.json = Doc(JList(<<JStr(car)>>), JList(<<JStr(car)>>),
                            JList(<<JNum(9)>>), JAbsent)]

FilterFiles == {ObjA, ObjB, KfDetections}

SearchFiles == {ObjA, ObjB, ObjGarbage, ObjBadScore, ObjBadBox, KfA}
FrameFiles == {KfA, KfUntagged, KfLong, KfOther, ObjA}

Stores(files) == UNION {[1..n -> files] : n \in 0..MaxStore}

(***************************************************************************)
(* Request inputs.                                                         *)
(***************************************************************************)
Terms == {<<>>, <<"c", "a">>, <<"C", "A", "R">>}
Queries == Terms \cup {<<" ">>, <<" ", "c", "a", "r", " ">>}
Floors == {5, 7, 11}
Caps == {-1, 0, 1, 2, 50}
VideoFilters == {<<>>, <<"l", "1">>, <<".", "2">>}
Confidences == {JNum(5), JStr(<<"0", ".", "7">>), JStr(<<"x">>)}
VideoIds == {JStr(L1), JStr(l2)}
FrameNumbers == {PyInt(1), JStr(F0001), JStr(<<"1">>), PyInt(10001), JNull}

\* the searches made while the store is unavailable
OutageSearches ==
    [search_term : {<<"c", "a">>}, confidence_threshold : {5},
     max_results : {1, 50}, video_filter : {<<>>, <<"l", "1">>}]

\* where the store can fail a search of files: at the get of a file the
\* search would find, or at the cursor after k of them (k = 0: at once)
Outages(files, video_filter) ==
    LET ids == FsFind(files, SearchQuery(video_filter), 1)
    IN  {[at |-> "get", n |-> ids[k]] : k \in 1..Len(ids)}
            \cup {[at |-> "find", n |-> k] : k \in 0..(Len(ids) - 1)}
            \cup {[at |-> "find", n |-> 0]}

(***************************************************************************)
(* The state machine: the store is fixed (ingestion is offline); each      *)
(* request is served to completion (op, args, ret: the request being       *)
(* answered and its response), and nothing of it is kept once the          *)
(* response is sent.                                                       *)
(***************************************************************************)
Init ==
    /\ store \in Stores(SearchFiles)
    /\ op = "none"
    /\ args = <<>>
    /\ ret = <<>>
    /\ reqs = <<>>

InitFrames ==
    /\ store \in Stores(FrameFiles)
    /\ op = "none"
    /\ args = <<>>
    /\ ret = <<>>
    /\ reqs = <<>>

InitFilter ==
    /\ store \in Stores(FilterFiles)
    /\ op = "none"
    /\ args = <<>>
    /\ ret = <<>>
    /\ reqs = <<>>

InitStats ==
    /\ store \in Stores(StatsFiles) \cup LongStores
    /\ op = "none"
    /\ args = <<>>
    /\ ret = <<>>
    /\ reqs = <<>>

SearchFrames ==
    \E term \in Terms, floor \in Floors, cap \in Caps, vf \in VideoFilters :
        /\ op = "none"
        /\ op' = "search_frames"
        /\ args' = [search_term |-> term, confidence_threshold |-> floor,
                    max_results |-> cap, video_filter |-> vf]
        /\ ret' = search_frames(store, term, floor, cap, vf)
        /\ UNCHANGED <<store, reqs>>

ApiSearch ==
    \E q \in Queries, conf \in Confidences, cap \in Caps :
        LET data == [query |-> q, confidence |-> conf, max_results |-> cap,
                     video_filter |-> <<>>]
        IN  /\ op = "none"
            /\ op' = "api_search"
            /\ args' = data
            /\ ret' = api_search(store, data)
            /\ UNCHANGED <<store, reqs>>

GetFrameImage ==
    \E video_id \in VideoIds, frame_number \in FrameNumbers :
        /\ op = "none"
        /\ op' = "get_frame_image_b64"
        /\ args' = [video_id |-> video_id, frame_number |-> frame_number]
        /\ ret' = get_frame_image_b64(store, video_id, frame_number)
        /\ UNCHANGED <<store, reqs>>

SearchFramesOutage ==
    \E q \in OutageSearches :
        \E outage \in Outages(store, q.video_filter) :
            /\ op = "none"
            /\ op' = "search_frames_outage"
            /\ args' = [q |-> q, outage |-> outage]
            /\ ret' = search_frames_outage(store, q, outage)
            /\ UNCHANGED <<store, reqs>>

GetDatasetStats ==
    /\ op = "none"
    /\ op' = "get_dataset_stats"
    /\ args' = <<>>
    /\ ret' = get_dataset_stats(store)
    /\ UNCHANGED <<store, reqs>>

GetPopularObjects ==
    /\ op = "none"
    /\ op' = "get_popular_objects"
    /\ args' = <<>>
    /\ ret' = get_popular_objects(store)
    /\ UNCHANGED <<store, reqs>>

\* the response is sent and the request's data discarded
Respond ==
    /\ op # "none"
    /\ op' = "none"
    /\ args' = <<>>
    /\ ret' = <<>>
    /\ UNCHANGED <<store, reqs>>

Next ==
    \/ SearchFrames
    \/ ApiSearch
    \/ GetFrameImage
    \/ SearchFramesOutage
    \/ GetDatasetStats
    \/ GetPopularObjects
    \/ Respond

\* the statistics requests alone
NextStats == GetDatasetStats \/ GetPopularObjects \/ Respond

Spec == Init /\ [][Next]_vars

SpecFrames == InitFrames /\ [][Next]_vars

SpecFilter == InitFilter /\ [][Next]_vars

SpecStats == InitStats /\ [][NextStats]_vars

(***************************************************************************)
(* Concurrent requests.  Each request runs in its own thread (Flask); its  *)
(* local variables are reqs[r].  A step is one call of the store adapter   *)
(* with the request's own work up to its next call; the steps of different *)
(* requests interleave freely.  The store is shared and only read.         *)
(***************************************************************************)
Requests == {"r1", "r2"}

ConcurrentFiles == {ObjA, ObjBadBox, KfA, KfUntagged}

ConcurrentSearches ==
    [search_term : {<<"c", "a">>}, confidence_threshold : {5},
     max_results : {2, 50}, video_filter : {<<>>}]

ConcurrentImages == [video_id : {JStr(L1)}, frame_number : {PyInt(1)}]

Idle ==
    [pc |-> "idle", kind |-> "none", args |-> <<>>, ids |-> <<>>, k |-> 0,
     results |-> <<>>, processed_count |-> 0, file_doc |-> 0,
     counts |-> <<>>, object_counter |-> <<>>, out |-> <<>>]

\* one results list for all requests, as an attribute of the application
\* object would be
ResultsCellShared(r) == "r1"

\* the list named `results` in request r: a local variable of the call
ResultsCell(r) == r

InitConcurrent ==
    /\ store \in Stores(ConcurrentFiles)
    /\ op = "none"
    /\ args = <<>>
    /\ ret = <<>>
    /\ reqs = [r \in Requests |-> Idle]

\* search_frames up to the cursor: query, results = [], processed_count = 0
SearchStart(r) ==
    \E q \in ConcurrentSearches :
        /\ reqs[r].pc = "idle"
        /\ reqs' = [reqs EXCEPT
                ![r] = [Idle EXCEPT
                    !.pc = "scan", !.kind = "search", !.args = q,
                    !.ids = FsFind(store, SearchQuery(q.video_filter), 1),
                    !.k = 1],
                ![ResultsCell(r)].results = <<>>]
        /\ UNCHANGED <<store, op, args, ret>>

\* one turn of `for file_doc in self.fs.find(query)`: the get of the file
\* and the try block
SearchFetch(r) ==
    LET me == reqs[r]
        q == me.args
        done == ProcessFile(FsGet(store, me.ids[me.k]),
                            reqs[ResultsCell(r)].results, q.search_term,
                            q.confidence_threshold, q.max_results)
        broke == ~done.raised /\ CapReached(done.results, q.max_results)
    IN  /\ me.pc = "scan"
        /\ me.k <= Len(me.ids)
        /\ reqs' = [reqs EXCEPT
                ![r].k = me.k + 1,
                ![r].processed_count =
                    IF done.raised THEN @ ELSE @ + 1,
                ![r].pc = IF broke THEN "sort" ELSE "scan",
                ![ResultsCell(r)].results = done.results]
        /\ UNCHANGED <<store, op, args, ret>>

\* the loop is left: sort and return
SearchFinish(r) ==
    LET me == reqs[r]
    IN  /\ \/ me.pc = "sort"
           \/ me.pc = "scan" /\ me.k > Len(me.ids)
        /\ reqs' = [reqs EXCEPT
                ![r].pc = "done",
                ![r].out = SearchReturn(
                    [results |-> reqs[ResultsCell(r)].results,
                     processed_count |-> me.processed_count])]
        /\ UNCHANGED <<store, op, args, ret>>

\* get_frame_image_b64 up to find_one and, when it finds nothing, the
\* cursor of the alternative query
ImageStart(r) ==
    \E a \in ConcurrentImages :
        LET first == FsFindOne(store,
                               ExactQuery(a.video_id, FrameStr(a.frame_number)))
        IN  /\ reqs[r].pc = "idle"
            /\ reqs' = [reqs EXCEPT
                    ![r] = [Idle EXCEPT
                        !.pc = IF first # 0 THEN "get" ELSE "alt",
                        !.kind = "image", !.args = a,
                        !.file_doc = first,
                        !.ids = IF first # 0 THEN <<>>
                                ELSE FsFind(store, AltQuery(a.video_id), 1),
                        !.k = 1]]
            /\ UNCHANGED <<store, op, args, ret>>

\* one turn of `for alt_file in self.fs.find(alt_query)`, or its end
ImageAlt(r) ==
    LET me == reqs[r]
        frame_str == FrameStr(me.args.frame_number)
    IN  /\ me.pc = "alt"
        /\ reqs' = [reqs EXCEPT ![r] =
                IF me.k > Len(me.ids)
                THEN [me EXCEPT !.pc = "done", !.out = JNull]
                ELSE IF Contains(frame_str,
                                 FsGet(store, me.ids[me.k]).filename)
                THEN [me EXCEPT !.pc = "get", !.file_doc = me.ids[me.k]]
                ELSE [me EXCEPT !.k = me.k + 1]]
        /\ UNCHANGED <<store, op, args, ret>>

\* self.fs.get(file_doc._id), read and encode
ImageGet(r) ==
    LET me == reqs[r]
    IN  /\ me.pc = "get"
        /\ reqs' = [reqs EXCEPT
                ![r].pc = "done",
                ![r].out = JStr(B64Encode(FsGet(store, me.file_doc).data))]
        /\ UNCHANGED <<store, op, args, ret>>

\* get_dataset_stats: distinct and the two count_documents
StatsCounts(r) ==
    /\ reqs[r].pc = "idle"
    /\ reqs' = [reqs EXCEPT
            ![r] = [Idle EXCEPT
                !.pc = "counted", !.kind = "stats",
                !.counts = [videos |-> Distinct(store, ObjectsQuery),
                            frames |-> CountDocuments(store, ObjectsQuery),
                            keyframes |->
                                CountDocuments(store, KeyframesQuery)]]]
    /\ UNCHANGED <<store, op, args, ret>>

\* object_counter = Counter() and the sample: in get_dataset_stats after
\* the counts, in get_popular_objects at once
SampleStart(r) ==
    LET me == reqs[r]
        limit == IF me.pc = "idle" THEN SuggestionSampleLimit
                 ELSE OverviewSampleLimit
    IN  /\ me.pc \in {"idle", "counted"}
        /\ reqs' = [reqs EXCEPT ![r] =
                [me EXCEPT
                    !.pc = "sample",
                    !.kind = IF me.pc = "idle" THEN "popular" ELSE "stats",
                    !.ids = FsFindLimit(store, ObjectsQuery, limit),
                    !.k = 1, !.object_counter = <<>>, !.out = <<>>]]
        /\ UNCHANGED <<store, op, args, ret>>

\* one turn of `for file_doc in sample_files`
SampleFetch(r) ==
    LET me == reqs[r]
        min_score == IF me.kind = "popular" THEN SuggestionMinScore
                     ELSE OverviewMinScore
    IN  /\ me.pc = "sample"
        /\ me.k <= Len(me.ids)
        /\ reqs' = [reqs EXCEPT
                ![r].k = me.k + 1,
                ![r].object_counter =
                    CountFile(FsGet(store, me.ids[me.k]), @, min_score)]
        /\ UNCHANGED <<store, op, args, ret>>

\* the return statement of get_dataset_stats or get_popular_objects
SampleFinish(r) ==
    LET me == reqs[r]
    IN  /\ me.pc = "sample"
        /\ me.k > Len(me.ids)
        /\ reqs' = [reqs EXCEPT
                ![r].pc = "done",
                ![r].out =
                    IF me.kind = "popular"
                    THEN LET top == MostCommon(me.object_counter,
                                               SuggestionTop)
                         IN  [k \in 1..Len(top) |-> top[k][1]]
                    ELSE [total_videos |-> Len(me.counts.videos),
                          total_frames |-> me.counts.frames,
                          total_keyframes |-> me.counts.keyframes,
                          top_objects |->
                              MostCommon(me.object_counter, OverviewTop),
                          sample_videos |->
                              SliceTo(me.counts.videos, SampleVideos)]]
        /\ UNCHANGED <<store, op, args, ret>>

\* the response is sent; the locals of the call are gone
RequestEnd(r) ==
    /\ reqs[r].pc = "done"
    /\ reqs' = [reqs EXCEPT ![r] = Idle]
    /\ UNCHANGED <<store, op, args, ret>>

NextConcurrent ==
    \E r \in Requests :
        \/ SearchStart(r)
        \/ SearchFetch(r)
        \/ SearchFinish(r)
        \/ ImageStart(r)
        \/ ImageAlt(r)
        \/ ImageGet(r)
        \/ StatsCounts(r)
        \/ SampleStart(r)
        \/ SampleFetch(r)
        \/ SampleFinish(r)
        \/ RequestEnd(r)

SpecConcurrent == InitConcurrent /\ [][NextConcurrent]_vars

(***************************************************************************)
(* The uploader (push.py).  A batch on disk is its name and, for each of   *)
(* its folders, the files os.walk yields: path is the path relative to     *)
(* the folder, as its parts; json is what json.load makes of the content;  *)
(* readable is FALSE when open() raises.  The tags file_size and           *)
(* upload_time are left out: nothing reads them.                           *)
(***************************************************************************)
\* the keys of folder_types, in the order of the dict
FolderTypes == <<"clip-features", "keyframes", "map-keyframes", "metadata", "objects">>

Basename(path) == path[Len(path)]

\* Path(name).suffix: from the last dot (name.rfind(".")), unless that dot
\* leads or ends the name
Suffix(s) ==
    LET dots == {i \in 1..Len(s) : s[i] = "."}
        last == CHOOSE i \in dots : \A j \in dots : j <= i
    IN  IF dots # {} /\ last > 1 /\ last < Len(s)
        THEN SubSeq(s, last, Len(s)) ELSE <<>>

\* Path(name).stem
Stem(s) == SubSeq(s, 1, Len(s) - Len(Suffix(s)))

\* s.split(sep)[0] for a one-character sep
SplitFirst(s, sep) ==
    IF \E i \in 1..Len(s) : s[i] = sep
    THEN SubSeq(s, 1, (CHOOSE i \in 1..Len(s) :
                          s[i] = sep /\ \A j \in 1..(i - 1) : s[j] # sep) - 1)
    ELSE s

\* s.replace(old, ""), old not empty
RECURSIVE Remove(_, _)
Remove(s, old) ==
    IF Len(s) < Len(old) THEN s
    ELSE IF SubSeq(s, 1, Len(old)) = old
    THEN Remove(SubSeq(s, Len(old) + 1, Len(s)), old)
    ELSE <<Head(s)>> \o Remove(Tail(s), old)

get_file_type(name) ==
    CASE Lower(Suffix(name)) = DotJson -> "application/json"
      [] Lower(Suffix(name)) = DotJpg -> "image/jpeg"
      [] OTHER -> "application/octet-stream"

\* the tags video_id and frame_number, None when the branch sets none
VideoIdTag(path, folder_type) ==
    IF folder_type \in {"objects", "keyframes"} /\ Len(path) >= 2
    THEN JStr(path[1])
    ELSE IF folder_type = "clip-features"
            /\ Contains(<<"_">>, Stem(Basename(path)))
    THEN JStr(SplitFirst(Stem(Basename(path)), "_"))
    ELSE JNull

FrameNumberTag(path, folder_type) ==
    IF folder_type = "objects" /\ Len(path) >= 2 THEN JStr(Stem(path[2]))
    ELSE IF folder_type = "keyframes" /\ Len(path) >= 2
            /\ Contains(<<"f", "r", "a", "m", "e">>, path[2])
    THEN JStr(SplitFirst(Remove(path[2], FramePrefix), "."))
    ELSE JNull

\* the try block of the detection tags: detection_count is set before the
\* scores are converted, so it stays when float() raises; -1 stands for a
\* tag that is not set (avg_confidence is set when max_confidence is)
DetectionTags(file, folder_type) ==
    LET scores == file.json.detection_scores
        name == Basename(file.path)
        none == [detection_count |-> -1, max_confidence |-> -1]
    IN  IF \/ Len(name) < Len(DotJson)
           \/ SubSeq(name, Len(name) - Len(DotJson) + 1, Len(name)) # DotJson
           \/ folder_type # "objects"
        THEN none
        ELSE IF ~file.readable \/ ~file.json.ok \/ scores.t # "list"
        THEN none
        ELSE IF \E k \in 1..Len(scores.v) : ~FloatOk(scores.v[k])
        THEN [detection_count |-> Len(scores.v), max_confidence |-> -1]
        ELSE [detection_count |-> Len(scores.v),
              max_confidence |->
                 IF scores.v = <<>> THEN 0
                 ELSE CHOOSE m \in {Float(scores.v[k]) : k \in 1..Len(scores.v)} :
                         \A k \in 1..Len(scores.v) : Float(scores.v[k]) <= m]

create_metadata(file, batch_name, folder_type) ==
    [batch |-> batch_name,
     type |-> folder_type,
     original_path |-> file.path,
     content_type |-> get_file_type(Basename(file.path)),
     video_id |-> VideoIdTag(file.path, folder_type),
     frame_number |-> FrameNumberTag(file.path, folder_type),
     detection_count |-> DetectionTags(file, folder_type).detection_count,
     max_confidence |-> DetectionTags(file, folder_type).max_confidence]

\* the lookup with the folder type as a fourth key
FindExistingOfType(files, filename, metadata) ==
    LET same == {id \in 1..Len(files) :
                    /\ files[id].filename = filename
                    /\ files[id].batch = metadata.batch
                    /\ files[id].original_path = metadata.original_path
                    /\ files[id].type = metadata.type}
    IN  IF same = {} THEN 0 ELSE CHOOSE id \in same : \A o \in same : id <= o

\* fs.find_one({"filename", "metadata.batch", "metadata.original_path"}):
\* the id of the first such file, 0 for None
FindExisting(files, filename, metadata) ==
    LET same == {id \in 1..Len(files) :
                    /\ files[id].filename = filename
                    /\ files[id].batch = metadata.batch
                    /\ files[id].original_path = metadata.original_path}
    IN  IF same = {} THEN 0 ELSE CHOOSE id \in same : \A o \in same : id <= o

\* fs.put(f.read(), filename=..., metadata=..., content_type=...): a new
\* file after those stored, the stored ones untouched
FsPut(files, file, filename, metadata) ==
    Append(files,
           [filename |-> filename, batch |-> metadata.batch,
            original_path |-> metadata.original_path,
            type |-> metadata.type, video_id |-> metadata.video_id,
            frame_number |-> metadata.frame_number,
            content_type |-> metadata.content_type,
            detection_count |-> metadata.detection_count,
            max_confidence |-> metadata.max_confidence,
            json |-> file.json, data |-> file.data])

\* _upload_single_file; fails: "find_one" or "put" when that call of the
\* store raises, "none" when the store answers
upload_single_file(files, file, metadata, fails) ==
    LET filename == Basename(file.path)
    IN  IF fails = "find_one" THEN [files |-> files, value |-> FALSE]
        ELSE IF FindExisting(files, filename, metadata) # 0
        THEN [files |-> files, value |-> FALSE]
        ELSE IF ~file.readable THEN [files |-> files, value |-> FALSE]
        ELSE IF fails = "put" THEN [files |-> files, value |-> FALSE]
        ELSE [files |-> FsPut(files, file, filename, metadata),
              value |-> TRUE]

\* an outage is [at |-> "find_one" or "put", n |-> k]: that call raises
\* for the k-th file of the run; n = 0 when the store answers throughout
NoOutage == [at |-> "none", n |-> 0]

\* _upload_folder: `for file in files` from the k-th file on; run holds
\* the batch name, the outage and the number of files of earlier folders
RECURSIVE UploadFolderLoop(_, _, _, _, _, _)
UploadFolderLoop(files, walk, folder_type, run, k, uploaded) ==
    IF k > Len(walk) THEN [files |-> files, uploaded |-> uploaded]
    ELSE LET metadata == create_metadata(walk[k], run.batch_name, folder_type)
             r == upload_single_file(files, walk[k], metadata,
                                     IF run.outage.n = run.before + k
                                     THEN run.outage.at ELSE "none")
         IN  UploadFolderLoop(r.files, walk, folder_type, run, k + 1,
                              IF r.value THEN uploaded + 1 ELSE uploaded)

\* `for folder_name in folder_types` of upload_batch_data, from the t-th
\* folder type on; a folder the batch has not is skipped
RECURSIVE UploadBatchLoop(_, _, _, _, _, _)
UploadBatchLoop(files, batch, outage, t, before, uploaded_count) ==
    IF t > Len(FolderTypes)
    THEN [files |-> files, value |-> uploaded_count]
    ELSE IF FolderTypes[t] \notin DOMAIN batch.folders
    THEN UploadBatchLoop(files, batch, outage, t + 1, before, uploaded_count)
    ELSE LET walk == batch.folders[FolderTypes[t]]
             r == UploadFolderLoop(files, walk, FolderTypes[t],
                                   [batch_name |-> Basename(batch.root),
                                    outage |-> outage, before |-> before],
                                   1, 0)
         IN  UploadBatchLoop(r.files, batch, outage, t + 1,
                             before + Len(walk), uploaded_count + r.uploaded)

upload_batch_data(files, batch, outage) ==
    UploadBatchLoop(files, batch, outage, 1, 0, 0)

\* the batches on disk
DiskFile(path, json, data, readable) ==
    [path |-> path, json |-> json, data |-> data, readable |-> readable]

DiskObjA == DiskFile(<<L1, F0001 \o DotJson>>, ObjA.json, <<>>, TRUE)
DiskObjBadScore == DiskFile(<<l2, F0001 \o DotJson>>, ObjBadScore.json, <<>>, TRUE)
DiskLocked == DiskFile(<<L1, F0002 \o DotJson>>, ObjB.json, <<>>, FALSE)
DiskKfA == DiskFile(<<L1, FramePrefix \o F0001 \o DotJpg>>, Unparseable, <<77, 97, 110>>, TRUE)
DiskClip == DiskFile(<<L1 \o <<"_", "f", ".", "n", "p", "y">>>>, Unparseable, <<1>>, TRUE)

\* in d/b2 the folders keyframes and objects both hold L1/0001.json
Batches ==
    {[root |-> <<<<"d">>, <<"b", "1">>>>,
      folders |-> [t \in {"clip-features", "objects"} |->
                     IF t = "objects" THEN <<DiskObjBadScore, DiskLocked>>
                     ELSE <<DiskClip>>]],
     [root |-> <<<<"d">>, <<"b", "2">>>>,
      folders |-> [t \in {"keyframes", "objects"} |->
                     IF t = "objects" THEN <<DiskObjA>>
                     ELSE <<DiskObjA, DiskKfA>>]]}

\* the files of a batch in the order of a run, each with its folder type
RunOrder(batch) ==
    LET RECURSIVE From(_)
        From(t) ==
            IF t > Len(FolderTypes) THEN <<>>
            ELSE IF FolderTypes[t] \notin DOMAIN batch.folders THEN From(t + 1)
            ELSE [k \in 1..Len(batch.folders[FolderTypes[t]]) |->
                     [file |-> batch.folders[FolderTypes[t]][k],
                      folder_type |-> FolderTypes[t]]] \o From(t + 1)
    IN  From(1)

UploadOutages(batch) ==
    {NoOutage} \cup [at : {"find_one", "put"}, n : 1..Len(RunOrder(batch))]

InitUpload ==
    /\ store = <<>>
    /\ op = "none"
    /\ args = <<>>
    /\ ret = <<>>
    /\ reqs = <<>>

\* one call of _upload_single_file, as _upload_folder makes it
UploadSingleFile ==
    \E batch \in Batches, fails \in {"none", "find_one", "put"} :
        \E k \in 1..Len(RunOrder(batch)) :
            LET file == RunOrder(batch)[k].file
                metadata == create_metadata(file, Basename(batch.root),
                                            RunOrder(batch)[k].folder_type)
                r == upload_single_file(store, file, metadata, fails)
            IN  /\ op' = "_upload_single_file"
                /\ args' = [file |-> file, metadata |-> metadata,
                            fails |-> fails]
                /\ ret' = r.value
                /\ store' = r.files
                /\ UNCHANGED reqs

\* one run of upload_batch_data
UploadBatchData ==
    \E batch \in Batches :
        \E outage \in UploadOutages(batch) :
            LET r == upload_batch_data(store, batch, outage)
            IN  /\ op' = "upload_batch_data"
                /\ args' = [batch |-> batch, outage |-> outage]
                /\ ret' = r.value
                /\ store' = r.files
                /\ UNCHANGED reqs

NextUpload ==
    \/ UploadSingleFile
    \/ UploadBatchData

SpecUpload == InitUpload /\ [][NextUpload]_vars

(***************************************************************************)
(* Properties.                                                             *)
(***************************************************************************)
IsSearch == op = "search_frames"

\* the set of elements of a sequence
Range(seq) == {seq[k] : k \in 1..Len(seq)}

\* the search of the current request, with another confidence floor
SearchWithFloor(floor) ==
    search_frames(store, args.search_term, floor, args.max_results,
                  args.video_filter)

\* C1: the number of results search returns is at most the cap.  (No list
\* is shorter than a negative cap, so the statement is made for the caps
\* a list can meet, cap >= 0; the claim includes them.)
C1_ResultsAtMostCap ==
    IsSearch /\ args.max_results >= 0 =>
        Len(ret.results) <= args.max_results

\* the files the search with this floor gives up on after decoding them:
\* an exception raised while their detections are matched
AbandonedWithFloor(floor) ==
    {f \in Range(store) :
        /\ Matches(SearchQuery(args.video_filter), f)
        /\ ~DecodeRaises(f.json)
        /\ ProcessFile(f, <<>>, args.search_term, floor,
                       args.max_results).raised}

\* C2 as claimed: for floors f1 < f2, every result of the search with f2
\* is among the results of the search with f1, cap reached or not.  It is
\* stated for caps >= 1, a term that is not empty and where the search
\* with f1 abandons no record, so that a violation is one of reaching the
\* cap alone.
C2_MonotonicFiltering ==
    IsSearch /\ args.max_results >= 1 /\ args.search_term # <<>> =>
        \A f1 \in Floors :
            f1 < args.confidence_threshold /\ AbandonedWithFloor(f1) = {} =>
                Range(ret.results) \subseteq Range(SearchWithFloor(f1).results)

ComesFrom(result, f) ==
    /\ result.video_id = f.video_id
    /\ result.frame_number = f.frame_number
    /\ result.filename = f.filename

\* C2 amended: for floors f1 < f2, when the search with f1 returns fewer
\* results than the cap, every result of the search with f2 is among the
\* results of the search with f1, except the results from a record that
\* the search with f1 abandoned on an exception raised while matching it.
C2_MonotonicBelowCap ==
    IsSearch =>
        \A f1 \in Floors :
            /\ f1 < args.confidence_threshold
            /\ Len(SearchWithFloor(f1).results) < args.max_results
            => \A r \in Range(ret.results) :
                  \/ r \in Range(SearchWithFloor(f1).results)
                  \/ \E f \in AbandonedWithFloor(f1) : ComesFrom(r, f)

\* C2 witness: a search with floor 0.7 that returns something, while the
\* same search with floor 0.5 stays below the cap and returns more
C2_Witness ==
    /\ IsSearch
    /\ args.confidence_threshold = 7
    /\ ret.results # <<>>
    /\ Len(SearchWithFloor(5).results) < args.max_results
    /\ Len(SearchWithFloor(5).results) > Len(ret.results)
    /\ AbandonedWithFloor(5) = {}

\* the results with confidence v, in the order of the list
WithConfidence(results, v) ==
    SelectSeq(results, LAMBDA r : r.confidence = v)

\* the results grouped by confidence, highest first, each group in the
\* order of the list
RECURSIVE GroupedDescending(_, _)
GroupedDescending(results, confs) ==
    IF confs = {} THEN <<>>
    ELSE LET top == CHOOSE v \in confs : \A w \in confs : w <= v
         IN  WithConfidence(results, top)
             \o GroupedDescending(results, confs \ {top})

\* what the scan of the current request collected, in scan order
Collected ==
    Scan(store, args.search_term, args.confidence_threshold,
         args.max_results, args.video_filter).results

\* C3: the results are ordered by confidence non-increasing, and results
\* of equal confidence are in the order in which the scan collected them.
C3_SortedStable ==
    IsSearch =>
        /\ \A k \in 1..(Len(ret.results) - 1) :
              ret.results[k].confidence >= ret.results[k + 1].confidence
        /\ ret.results =
              GroupedDescending(Collected,
                                {r.confidence : r \in Range(Collected)})

\* C3 witness: the sort moved something, and two different results of
\* equal confidence are next to each other
C3_Witness ==
    /\ IsSearch
    /\ ret.results # Collected
    /\ \E k \in 1..(Len(ret.results) - 1) :
          /\ ret.results[k].confidence = ret.results[k + 1].confidence
          /\ ret.results[k] # ret.results[k + 1]

\* C4: search with an empty label substring fails with InvalidQuery and
\* returns no results, in the core search operation itself.  (Stated for
\* caps >= 1.)
C4_EmptyTermRejected ==
    IsSearch /\ args.search_term = <<>> /\ args.max_results >= 1 =>
        ret.total_matches = 0 /\ ret.results = <<>>

\* the labels of detection i of a record contain the term, ignoring case
LabelContains(json, i, term) ==
    LET entity == DataGet(json.detection_class_entities).v[i]
        class_name == DataGet(json.detection_class_names).v[i]
    IN  \/ entity.t = "str" /\ Contains(Lower(term), Lower(entity.s))
        \/ class_name.t = "str" /\ Contains(Lower(term), Lower(class_name.s))

\* detection i of stored file f: its score is a number >= floor
ScoreAtLeast(json, i, floor) ==
    LET score == DataGet(json.detection_scores).v[i]
    IN  FloatOk(score) /\ Float(score) >= floor

Detections(json) ==
    1..Min2(Len(DataGet(json.detection_class_entities).v),
            Min2(Len(DataGet(json.detection_class_names).v),
                 Len(DataGet(json.detection_scores).v)))

\* C5: every result corresponds to a detection i of a scanned record whose
\* score is >= the floor and whose entity or class name contains the term
\* ignoring case; its confidence is that score and its video_id and
\* frame_number are the tags of that record.
C5_ResultsAreMatches ==
    IsSearch =>
        \A r \in Range(ret.results) :
            \E id \in 1..Len(store) :
                /\ store[id].type = "objects"
                /\ store[id].json.ok
                /\ \E i \in Detections(store[id].json) :
                      /\ ScoreAtLeast(store[id].json, i,
                                      args.confidence_threshold)
                      /\ LabelContains(store[id].json, i, args.search_term)
                      /\ r.confidence =
                            Float(store[id].json.detection_scores.v[i])
                      /\ r.entity = store[id].json.detection_class_entities.v[i]
                      /\ r.class_name = store[id].json.detection_class_names.v[i]
                /\ r.video_id = store[id].video_id
                /\ r.frame_number = store[id].frame_number

\* C5 witness: a search for "CAR" returns a result whose entity does not
\* contain "car" (its class name does) and one from a numeric-string score
C5_Witness ==
    /\ IsSearch
    /\ args.search_term = <<"C", "A", "R">>
    /\ \E r \in Range(ret.results) : r.entity = JStr(bus)
    /\ \E r \in Range(ret.results) : r.video_id = JStr(l2) /\ r.confidence = 5

\* a sequence without its k-th element
RemoveAt(seq, k) == SubSeq(seq, 1, k - 1) \o SubSeq(seq, k + 1, Len(seq))

\* the stored objects records that do not decode
Undecodable == {id \in 1..Len(store) :
                   store[id].type = "objects" /\ DecodeRaises(store[id].json)}

\* C6: a record whose payload does not decode (unparseable text, or a
\* score that is no number) adds no result and does not end the scan: the
\* results are those of the same search over the store without the record.
C6_UndecodableSkipped ==
    IsSearch =>
        \A id \in Undecodable :
            LET without == search_frames(RemoveAt(store, id),
                               args.search_term, args.confidence_threshold,
                               args.max_results, args.video_filter)
            IN  /\ ret.results = without.results
                /\ ret.total_matches = without.total_matches

\* C6 witness: an unparseable record and one with a bad score are scanned
\* before a record that gives results
C6_Witness ==
    /\ IsSearch
    /\ Len(store) = 3
    /\ store[1] = ObjGarbage
    /\ store[2] = ObjBadScore
    /\ args.video_filter = <<>>
    /\ ret.results # <<>>

\* C7: total_matches equals the number of results in the returned list,
\* also in the HTTP response after it cut the list to max_results; a
\* search without a match returns no results and total_matches = 0.
\* (Stated for caps >= 0.)
C7_TotalMatchesIsCount ==
    /\ IsSearch => ret.total_matches = Len(ret.results)
    /\ op = "api_search" /\ ret.status = 200 /\ args.max_results >= 0 =>
          ret.total_matches = Len(ret.results)

\* boxes of a record: absent, or a list shorter than i
NoBoxAt(json, i) ==
    \/ json.detection_boxes.t = "absent"
    \/ json.detection_boxes.t = "list" /\ Len(json.detection_boxes.v) < i

\* a record whose labels are all strings and whose boxes, where there are
\* any, are lists of numbers: nothing in it raises
WellFormed(json) ==
    /\ ~DecodeRaises(json)
    /\ \A i \in Detections(json) :
          /\ json.detection_class_entities.v[i].t = "str"
          /\ json.detection_class_names.v[i].t = "str"
    /\ DataGet(json.detection_boxes).t = "list"
    /\ \A i \in 1..Len(DataGet(json.detection_boxes).v) :
          LET box == DataGet(json.detection_boxes).v[i]
          IN  box.t = "list" /\ \A k \in 1..Len(box.v) : FloatOk(box.v[k])

\* the matching detections of scanned file f that lie beyond its boxes
BoxlessMatches(f) ==
    {i \in Detections(f.json) :
        /\ ScoreAtLeast(f.json, i, args.confidence_threshold)
        /\ LabelContains(f.json, i, args.search_term)
        /\ NoBoxAt(f.json, i)}

\* C8: a matching detection at index i of a record whose boxes field is
\* missing or has length <= i is still returned, with an empty bbox: the
\* record is not skipped for it.  (Stated for searches that end below the
\* cap, which examine every detection, and records in which nothing else
\* raises.)
C8_MissingBoxIsEmpty ==
    IsSearch /\ Len(ret.results) < args.max_results =>
        \A f \in Range(store) :
            Matches(SearchQuery(args.video_filter), f) /\ WellFormed(f.json) =>
                \A i \in BoxlessMatches(f) :
                    \E r \in Range(ret.results) :
                        /\ ComesFrom(r, f)
                        /\ r.entity = f.json.detection_class_entities.v[i]
                        /\ r.class_name = f.json.detection_class_names.v[i]
                        /\ r.confidence = Float(f.json.detection_scores.v[i])
                        /\ r.bbox = <<>>

\* C8 witness: results with an empty bbox from a record without a boxes
\* field and from one whose boxes are too short
C8_Witness ==
    /\ IsSearch
    /\ Len(ret.results) < args.max_results
    /\ \E r \in Range(ret.results) : ComesFrom(r, ObjB) /\ r.bbox = <<>>
    /\ \E r \in Range(ret.results) : ComesFrom(r, ObjA) /\ r.bbox = <<>>
    /\ \E r \in Range(ret.results) : ComesFrom(r, ObjA) /\ r.bbox # <<>>

IsGetFrame == op = "get_frame_image_b64"

RECURSIVE DigitsValue(_)
DigitsValue(s) ==
    IF s = <<>> THEN 0
    ELSE 10 * DigitsValue(SubSeq(s, 1, Len(s) - 1)) + DigitVal(s[Len(s)])

\* the frame a frame_number argument names: a non-negative int, or a
\* string of one to four digits; -1 for anything else
NumberOf(frame_number) ==
    CASE frame_number.t = "int" /\ frame_number.n >= 0 -> frame_number.n
      [] /\ frame_number.t = "str"
         /\ Len(frame_number.s) \in 1..4
         /\ \A k \in 1..Len(frame_number.s) : IsDigit(frame_number.s[k])
         -> DigitsValue(frame_number.s)
      [] OTHER -> -1

\* C9: the frame number is canonicalized by left-padding with zeros to
\* width 4 whether it is given as an integer or as a string: the canonical
\* form has at least 4 characters, reads as the same number, and is its
\* own canonical form; and two arguments that name the same frame make
\* the same lookups with the same outcome on the same store.
C9_FrameNumberCanonical ==
    IsGetFrame =>
        LET frame_str == FrameStr(args.frame_number)
            n == NumberOf(args.frame_number)
        IN  /\ Len(frame_str) >= 4
            /\ FrameStr(JStr(frame_str)) = frame_str
            /\ n >= 0 =>
                  /\ \A k \in 1..Len(frame_str) : IsDigit(frame_str[k])
                  /\ DigitsValue(frame_str) = n
                  /\ n < 10000 => Len(frame_str) = 4
                  /\ \A other \in FrameNumbers :
                        NumberOf(other) = n =>
                            get_frame_image_b64(store, args.video_id, other)
                                = ret

\* C9 witness: the integer 1 resolves to an image, the one the string
\* "0001" resolves to
C9_Witness ==
    /\ IsGetFrame
    /\ args.frame_number = PyInt(1)
    /\ ret.image # JNull
    /\ ret = get_frame_image_b64(store, args.video_id, JStr(F0001))

B64Index(c) == (CHOOSE k \in 1..64 : B64Alphabet[k] = c) - 1

\* the bytes a base64 text stands for
RECURSIVE B64Decode(_)
B64Decode(s) ==
    IF s = <<>> THEN <<>>
    ELSE LET b1 == B64Index(s[1]) * 4 + B64Index(s[2]) \div 16
             b2 == (B64Index(s[2]) % 16) * 16 + B64Index(s[3]) \div 4
             b3 == (B64Index(s[3]) % 4) * 64 + B64Index(s[4])
         IN  IF s[3] = "=" THEN <<b1>>
             ELSE IF s[4] = "=" THEN <<b1, b2>>
             ELSE <<b1, b2, b3>> \o B64Decode(SubSeq(s, 5, Len(s)))

\* a keyframe tagged with the requested video and the canonical frame
ExactlyTagged(f) ==
    /\ f.type = "keyframes"
    /\ f.video_id = args.video_id
    /\ f.frame_number.t = "str"
    /\ f.frame_number.s = FrameStr(args.frame_number)

\* C10: when a keyframe tagged with the video_id and the canonical frame
\* number exists, the bytes returned are those of such a blob and the
\* filename enumeration (find) is never made, whatever other filenames
\* of that video contain the canonical frame number.
C10_ExactTagFirst ==
    IsGetFrame /\ (\E f \in Range(store) : ExactlyTagged(f)) =>
        /\ ret.calls = <<"find_one", "get">>
        /\ ret.image.t = "str"
        /\ ExactlyTagged(store[ret.id])
        /\ B64Decode(ret.image.s) = store[ret.id].data

\* C10 witness: the exactly tagged keyframe is returned although a
\* keyframe of the same video, whose filename contains the canonical frame
\* number, is stored before it
C10_Witness ==
    /\ IsGetFrame
    /\ Len(store) >= 2
    /\ ~ExactlyTagged(store[1])
    /\ Matches(AltQuery(args.video_id), store[1])
    /\ Contains(FrameStr(args.frame_number), store[1].filename)
    /\ ExactlyTagged(store[2])
    /\ ret.id = 2
    /\ B64Decode(ret.image.s) = <<77, 97, 110>>

\* the keyframes of the requested video whose filename contains the
\* canonical frame number
FilenameCandidates ==
    {id \in DOMAIN store :
        /\ store[id].type = "keyframes"
        /\ store[id].video_id = args.video_id
        /\ Contains(FrameStr(args.frame_number), store[id].filename)}

\* C11: when no keyframe is tagged with the video_id and the canonical
\* frame number, the image returned is that of the first keyframe of the
\* video, in store order, whose filename contains the canonical frame
\* number; nothing is returned (None, no error) exactly when there is
\* neither an exact tag nor such a filename.
C11_FallbackFirstFilename ==
    IsGetFrame =>
        /\ (ret.image = JNull) <=>
              /\ ~\E f \in Range(store) : ExactlyTagged(f)
              /\ FilenameCandidates = {}
        /\ ret.image = JNull => ret.id = 0
        /\ (~\E f \in Range(store) : ExactlyTagged(f))
              /\ FilenameCandidates # {} =>
                  /\ ret.id \in FilenameCandidates
                  /\ \A id \in FilenameCandidates : ret.id <= id
                  /\ ret.calls = <<"find_one", "find", "get">>
                  /\ B64Decode(ret.image.s) = store[ret.id].data

\* C11 witness: no exact tag; two different keyframes of the video hold
\* the canonical frame number in their filenames, after one that does not,
\* and the earlier of the two is returned
C11_Witness ==
    /\ IsGetFrame
    /\ ~\E f \in Range(store) : ExactlyTagged(f)
    /\ Len(store) = 3
    /\ FilenameCandidates = {2, 3}
    /\ store[1].type = "keyframes"
    /\ store[2] # store[3]
    /\ ret.id = 2
    /\ B64Decode(ret.image.s) = store[2].data

IsDatasetStats == op = "get_dataset_stats"

OfType(type) == {id \in DOMAIN store : store[id].type = type}

\* C13: in the dataset overview, total_videos is the number of distinct
\* video_id tag values over all objects entries, total_frames the number
\* of objects entries and total_keyframes the number of keyframes entries:
\* exact counts, whatever the sample limit and whether records decode.
C13_DatasetCountsExact ==
    IsDatasetStats =>
        /\ ret.total_videos
              = Cardinality({store[id].video_id : id \in OfType("objects")})
        /\ ret.total_frames = Cardinality(OfType("objects"))
        /\ ret.total_keyframes = Cardinality(OfType("keyframes"))

\* C13 witness: more objects entries than the sample holds, from two
\* videos, one of them undecodable, all counted
C13_Witness ==
    /\ IsDatasetStats
    /\ ret.total_frames > OverviewSampleLimit
    /\ ret.total_videos = 2
    /\ \E id \in OfType("objects") : ~store[id].json.ok

IsPopularObjects == op = "get_popular_objects"

\* the first `limit` objects records of the store, in store order
ObjectsTaken(limit) ==
    LET IsObjects(f) == f.type = "objects"
        objects == SelectSeq(store, IsObjects)
    IN  SubSeq(objects, 1, Min2(limit, Len(objects)))

\* a payload the samplers can read: JSON whose scores are all numbers
Readable(json) ==
    /\ json.ok
    /\ DataGet(json.detection_class_entities).t = "list"
    /\ DataGet(json.detection_scores).t = "list"
    /\ \A i \in 1..Len(DataGet(json.detection_scores).v) :
          FloatOk(DataGet(json.detection_scores).v[i])

\* the detections <<k, i>> (i-th of the k-th record taken) with a score
\* of at least floor
Admitted(taken, floor) ==
    UNION {{<<k, i>> : i \in {i \in 1..Min2(
                Len(DataGet(taken[k].json.detection_class_entities).v),
                Len(DataGet(taken[k].json.detection_scores).v)) :
                    ScoreAtLeast(taken[k].json, i, floor)}} :
           k \in {k \in 1..Len(taken) : Readable(taken[k].json)}}

\* the label of admitted detection p
LabelAt(taken, p) == taken[p[1]].json.detection_class_entities.v[p[2]]

\* detection p comes before detection q in store order
Earlier(p, q) == p[1] < q[1] \/ (p[1] = q[1] /\ p[2] < q[2])

\* per label: the number of its admitted detections and the first of them
Tallies(taken, admitted) ==
    {LET of == {p \in admitted : LabelAt(taken, p) = l}
     IN  [label |-> l, count |-> Cardinality(of),
          first |-> CHOOSE p \in of : \A q \in of : ~Earlier(q, p)] :
        l \in {LabelAt(taken, p) : p \in admitted}}

\* label t goes before label u: the higher count, or the same count and
\* met first
GoesBefore(t, u) ==
    \/ t.count > u.count
    \/ t.count = u.count /\ Earlier(t.first, u.first)

\* each label with its place in the ranking
Places(tallies) ==
    {<<t, 1 + Cardinality({u \in tallies : GoesBefore(u, t)})>> :
        t \in tallies}

TalliesPlaced(places) ==
    [k \in 1..Cardinality(places) |->
        LET t == (CHOOSE pl \in places : pl[2] = k)[1]
        IN  <<t.label, t.count>>]

RankedTallies(tallies) == TalliesPlaced(Places(tallies))

HistogramOf(taken, floor) == RankedTallies(Tallies(taken, Admitted(taken, floor)))

\* the labels with their numbers of admitted detections among the first
\* `limit` objects records: the higher number first, and of two labels with
\* the same number the one met first
Histogram(limit, floor) == HistogramOf(ObjectsTaken(limit), floor)

Firsts(pairs) == [k \in 1..Len(pairs) |-> pairs[k][1]]

\* C12 as stated: the histogram returned holds every label that has a
\* detection with score >= min_score among the first max_records objects
\* records, with the number of such detections.
C12_HistogramComplete ==
    IsDatasetStats =>
        \A item \in Range(Histogram(OverviewSampleLimit, OverviewMinScore)) :
            item \in Range(ret.top_objects)

\* C12: the overview's top_objects are the first 20 (label, count) pairs,
\* and the suggestions the first 50 labels, of the histogram that counts
\* per entity label the detections with a score of at least 0.5 (0.6 for
\* suggestions) among the first 1000 (500) objects records in store order,
\* records that do not decode left out, ordered by count descending and,
\* for equal counts, in first-encountered order.
C12_HistogramRanked ==
    /\ IsDatasetStats =>
          ret.top_objects
              = SliceTo(Histogram(OverviewSampleLimit, OverviewMinScore),
                        OverviewTop)
    /\ IsPopularObjects =>
          ret = Firsts(SliceTo(Histogram(SuggestionSampleLimit,
                                         SuggestionMinScore),
                               SuggestionTop))

\* C12 witness: Car and car are each counted twice over two records, Car
\* met first, and both go ahead of bus, counted once and met before car; a
\* record that does not decode lies between the two records
C12_Witness ==
    /\ IsDatasetStats
    /\ store = <<ObjA, ObjGarbage, ObjBadBox>>
    /\ ret.top_objects
          = <<<<JStr(Car), 2>>, <<JStr(car), 2>>, <<JStr(bus), 1>>>>

\* both samplers read the same records and admit the same detections: no
\* more objects records than the smaller sample holds, and no score
\* between the two thresholds
SamplesCoincide ==
    /\ Cardinality(OfType("objects")) <= SuggestionSampleLimit
    /\ Admitted(ObjectsTaken(OverviewSampleLimit), OverviewMinScore)
          = Admitted(ObjectsTaken(SuggestionSampleLimit), SuggestionMinScore)

\* C18 as stated: only the suggestion list is truncated, so the overview
\* holds every label of its histogram.
C18_OnlySuggestionsTruncated ==
    IsDatasetStats =>
        Len(ret.top_objects)
            = Len(Histogram(OverviewSampleLimit, OverviewMinScore))

\* C18: the overview histogram and the suggestion list come from the same
\* sampling procedure with (max_records, min_score) = (1000, 0.5) and
\* (500, 0.6); both are truncated, the overview to its top 20 (label,
\* count) pairs and the suggestion list to its top 50 labels.  Where the
\* two samples coincide, the overview's labels are the first 20
\* suggestions.
C18_SameSamplingTwoCuts ==
    /\ IsDatasetStats =>
          /\ Len(ret.top_objects)
                = Min2(OverviewTop,
                       Len(Histogram(OverviewSampleLimit, OverviewMinScore)))
          /\ SamplesCoincide =>
                Firsts(ret.top_objects)
                    = SliceTo(get_popular_objects(store), OverviewTop)
    /\ IsPopularObjects =>
          /\ Len(ret)
                = Min2(SuggestionTop,
                       Len(Histogram(SuggestionSampleLimit,
                                     SuggestionMinScore)))
          /\ SamplesCoincide =>
                SliceTo(ret, OverviewTop)
                    = Firsts(get_dataset_stats(store).top_objects)

\* C18 witness: more labels than either list holds; the overview gives 20
\* of them and the suggestions 50, the same first 20
C18_Witness ==
    /\ IsDatasetStats
    /\ SamplesCoincide
    /\ Len(Histogram(OverviewSampleLimit, OverviewMinScore)) > SuggestionTop
    /\ Len(ret.top_objects) = OverviewTop
    /\ Len(get_popular_objects(store)) = SuggestionTop
    /\ Firsts(ret.top_objects)
          = SliceTo(get_popular_objects(store), OverviewTop)

IsOutageSearch == op = "search_frames_outage"

\* the search of the request in args, the store available
WithoutOutage ==
    search_frames(store, args.q.search_term, args.q.confidence_threshold,
                  args.q.max_results, args.q.video_filter)

\* C14: a store outage during a search, at the enumeration or at the get
\* of one entry, is an error for the caller: the search never returns a
\* normal result that leaves out the results of the entries it could not
\* read.
C14_OutageSurfaced ==
    IsOutageSearch =>
        \/ ret.raised
        \/ ret.value.results = WithoutOutage.results

\* C14, the enumeration alone: when the cursor fails, the search raises
\* unless it had already stopped at the cap
C14_FindOutageRaises ==
    IsOutageSearch /\ args.outage.at = "find" =>
        \/ ret.raised
        \/ /\ ret.value = WithoutOutage
           /\ Len(ret.value.results) = args.q.max_results

\* the stored objects records the search of the request enumerates
Enumerated ==
    {id \in DOMAIN store :
        /\ store[id].type = "objects"
        /\ args.video_filter # <<>> =>
              /\ store[id].video_id.t = "str"
              /\ RegexSearchI(args.video_filter, store[id].video_id.s)}

\* the matching detections <<id, i>> of the enumerated records that decode
MatchingDetections ==
    {p \in Enumerated \X (1..(SuggestionTop + 1)) :
        /\ ~DecodeRaises(store[p[1]].json)
        /\ p[2] \in Detections(store[p[1]].json)
        /\ ScoreAtLeast(store[p[1]].json, p[2], args.confidence_threshold)
        /\ LabelContains(store[p[1]].json, p[2], args.search_term)}

\* result r is the one detection p gives
ResultOf(r, p) ==
    LET f == store[p[1]]
    IN  /\ ComesFrom(r, f)
        /\ r.entity = f.json.detection_class_entities.v[p[2]]
        /\ r.class_name = f.json.detection_class_names.v[p[2]]
        /\ r.confidence = Float(f.json.detection_scores.v[p[2]])

\* every matching detection is returned, and no more results than that
AllMatchesOnce ==
    /\ Len(ret.results) = Cardinality(MatchingDetections)
    /\ \A p \in MatchingDetections :
          \E k \in 1..Len(ret.results) : ResultOf(ret.results[k], p)

\* matching the detections of a decoded record raises (backend.py
\* 135-146): a label that is no string is lowered, or a box that is no
\* list of numbers is converted
MatchingRaises(json, term, floor) ==
    \E i \in Detections(json) :
        /\ ScoreAtLeast(json, i, floor)
        /\ \/ json.detection_class_entities.v[i].t # "str"
           \/ /\ ~LabelContains(json, i, term)
              /\ json.detection_class_names.v[i].t # "str"
           \/ /\ LabelContains(json, i, term)
              /\ ~NoBoxAt(json, i)
              /\ \/ json.detection_boxes.t # "list"
                 \/ json.detection_boxes.v[i].t # "list"
                 \/ \E k \in 1..Len(json.detection_boxes.v[i].v) :
                       ~FloatOk(json.detection_boxes.v[i].v[k])

C16_ProcessedCountsVisited ==
    IsSearch /\ args.max_results >= 1
        /\ Len(ret.results) < args.max_results =>
            ret.processed_files = Cardinality(Enumerated)

\* what the scan of the request collects, in scan order, under a cap that
\* no scan of the store reaches
CollectedUncapped ==
    Scan(store, args.search_term, args.confidence_threshold,
         Cardinality(MatchingDetections) + 1, args.video_filter).results

\* C17: the scan stops as soon as cap results are collected, so what it
\* collects (before the sort) is the first cap matches in store
\* enumeration order: nothing when the cap is 0.
C17_FirstCapMatches ==
    IsSearch /\ args.max_results >= 0 =>
        Collected = SliceTo(CollectedUncapped, args.max_results)

\* C17 for caps >= 1: what the scan collects is the first cap matches in
\* store enumeration order
C17_FirstCapMatchesPositiveCap ==
    IsSearch /\ args.max_results >= 1 =>
        Collected = SliceTo(CollectedUncapped, args.max_results)

\* C19 as stated: with a non-empty video_filter, the video_id of every
\* result contains video_filter as a substring, ignoring case.
C19_FilterIsSubstring ==
    IsSearch /\ args.video_filter # <<>> =>
        \A r \in Range(ret.results) :
            /\ r.video_id.t = "str"
            /\ Contains(Lower(args.video_filter), Lower(r.video_id.s))

\* some place of s where every character of pattern fits, "." fitting any
\* character and a letter fitting itself in either case
FitsSomewhere(pattern, s) ==
    \E k \in 0..(Len(s) - Len(pattern)) :
        \A j \in 1..Len(pattern) :
            \/ pattern[j] = "."
            \/ Lower(<<pattern[j]>>) = Lower(<<s[k + j]>>)

\* C19: every result comes from an entry tagged type = "objects"; with a
\* non-empty video_filter the video_id of every result matches
\* video_filter read as a case-insensitive regular expression found
\* anywhere in the id, which for a filter of literal characters is
\* case-insensitive substring containment; with an empty video_filter the
\* matches of every video are returned.
C19_FilterIsRegex ==
    IsSearch =>
        /\ \A r \in Range(ret.results) :
              \E id \in OfType("objects") : ComesFrom(r, store[id])
        /\ args.video_filter # <<>> =>
              \A r \in Range(ret.results) :
                  /\ r.video_id.t = "str"
                  /\ FitsSomewhere(args.video_filter, r.video_id.s)
                  /\ (\A j \in 1..Len(args.video_filter) :
                          args.video_filter[j] # ".") =>
                        Contains(Lower(args.video_filter),
                                 Lower(r.video_id.s))
        /\ args.video_filter = <<>> /\ args.max_results >= 1
              /\ Len(ret.results) < args.max_results =>
                  \A p \in MatchingDetections :
                      \E k \in 1..Len(ret.results) :
                          ResultOf(ret.results[k], p)

\* C19 witness: records of two videos and detections under a keyframes
\* tag are stored; the filter "l1" keeps the results of video "L1" alone
C19_Witness ==
    /\ IsSearch
    /\ args.max_results >= 1
    /\ args.video_filter = <<"l", "1">>
    /\ \E id \in OfType("objects") : store[id].video_id = JStr(l2)
    /\ \E id \in OfType("keyframes") : store[id].json.ok
    /\ ret.results # <<>>
    /\ \A r \in Range(ret.results) : r.video_id = JStr(L1)

\* what the request of r returns when it is served alone
Alone(r) ==
    LET a == reqs[r].args
    IN  CASE reqs[r].kind = "search" ->
                search_frames(store, a.search_term, a.confidence_threshold,
                              a.max_results, a.video_filter)
          [] reqs[r].kind = "image" ->
                get_frame_image_b64(store, a.video_id, a.frame_number).image
          [] reqs[r].kind = "stats" -> get_dataset_stats(store)
          [] reqs[r].kind = "popular" -> get_popular_objects(store)

\* C20: whatever the interleaving of the steps of concurrent search,
\* image and statistics requests over an unchanging store, each request
\* returns what it returns when served alone, and no step changes the
\* store.
C20_RequestsIsolated ==
    /\ [](\A r \in Requests : reqs[r].pc = "done" => reqs[r].out = Alone(r))
    /\ [][store' = store]_vars

\* C20 witness: a search has returned two results while another search,
\* over the same records, is in the middle of its scan with one result
C20_Witness ==
    /\ reqs # <<>>
    /\ reqs["r1"].pc = "done"
    /\ reqs["r1"].kind = "search"
    /\ Len(reqs["r1"].out.results) >= 2
    /\ reqs["r2"].pc = "scan"
    /\ reqs["r2"].k = 2
    /\ Len(reqs["r2"].results) >= 1
    /\ Len(reqs["r2"].ids) >= 2

\* the records the scan of the request visits, in scan order, each with
\* the result list before and after its try block and whether it raised
RECURSIVE VisitsFrom(_, _, _, _)
VisitsFrom(ids, k, results, q) ==
    IF k > Len(ids) THEN <<>>
    ELSE LET r == ProcessFile(FsGet(store, ids[k]), results, q.search_term,
                              q.confidence_threshold, q.max_results)
             visit == [id |-> ids[k], before |-> results,
                       after |-> r.results, raised |-> r.raised]
         IN  IF ~r.raised /\ CapReached(r.results, q.max_results)
             THEN <<visit>>
             ELSE <<visit>> \o VisitsFrom(ids, k + 1, r.results, q)

Visits ==
    VisitsFrom(FsFind(store, SearchQuery(args.video_filter), 1), 1, <<>>,
               [search_term |-> args.search_term,
                confidence_threshold |-> args.confidence_threshold,
                max_results |-> args.max_results])

\* C22: a record whose processing raises contributes nothing: the result
\* list after its try block is the list before it was visited, so what
\* the search returns holds no result of an earlier detection of it.
C22_RaisingRecordAddsNothing ==
    IsSearch =>
        \A v \in 1..Len(Visits) :
            Visits[v].raised => Visits[v].after = Visits[v].before

\* C22, the records that raise before their first detection is looked at
\* (payload that does not decode) do contribute nothing
C22_UndecodableAddsNothing ==
    IsSearch =>
        \A v \in 1..Len(Visits) :
            Visits[v].raised /\ DecodeRaises(store[Visits[v].id].json) =>
                Visits[v].after = Visits[v].before

\* two stored files with the same filename, batch and original_path
SameKey(f, g) ==
    /\ f.filename = g.filename
    /\ f.batch = g.batch
    /\ f.original_path = g.original_path

\* the store holds at most one blob per (filename, batch, original_path)
OneBlobPerKey ==
    \A i, j \in 1..Len(store) : SameKey(store[i], store[j]) => i = j

\* a step leaves every stored blob and its tags as they were
KeepsStored ==
    Len(store') >= Len(store) /\ SubSeq(store', 1, Len(store)) = store

\* the call of _upload_single_file a step makes finds its key stored
KeyStoredBefore ==
    \E id \in 1..Len(store) :
        /\ store[id].filename = Basename(args'.file.path)
        /\ store[id].batch = args'.metadata.batch
        /\ store[id].original_path = args'.metadata.original_path

\* _upload_single_file stores a blob only if no stored blob has its key;
\* otherwise it returns False and leaves the store unchanged
SingleFileWriteOnce ==
    op' = "_upload_single_file" =>
        /\ store' # store => ~KeyStoredBefore /\ ret' = TRUE
        /\ KeyStoredBefore => ret' = FALSE /\ store' = store

\* a run of upload_batch_data right after a run on the same batch
Rerun ==
    /\ op = "upload_batch_data"
    /\ op' = "upload_batch_data"
    /\ args'.batch = args.batch

====
